---- MODULE Spec2Model ----
(***************************************************************************)
(* Model of the counter program (src/src/lib.rs): the instruction codec    *)
(* (CounterInstruction::unpack and its Borsh encoding), the two handlers   *)
(* process_initialize_counter and process_increment_counter, and the entry *)
(* point process_instruction that routes between them.                     *)
(*                                                                         *)
(* A u64 is kept at its full width as four 16-bit limbs, least significant *)
(* limb first, so that <<65535, 65535, 65535, 65535>> is u64::MAX.  Bytes  *)
(* are the integers 0..255.                                                *)
(***************************************************************************)
EXTENDS Integers, Sequences, FiniteSets, TLC

VARIABLES
    accounts,   \* the ledger: address -> [lamports, owner, data]
    phase,      \* "idle" | "pending" | "done": where the current invocation is
    call,       \* the invocation in flight: [accounts, instruction_data]
    prev,       \* the ledger as it was when the invocation in flight started
    result,     \* what process_instruction returned ("None" before it has run)
    logs,       \* the msg! lines the invocation emitted
    cpi,        \* the create_account requests the invocation issued
    created,    \* addresses whose account this program's initialize created
    initValue,  \* address -> the initial_value its initialize stored
    incs,       \* address -> number of successful increments on it
    input,      \* codec machine: the byte buffer handed to unpack
    unpacked,   \* what unpack returned for the buffer it was given
    packed      \* codec machine: the Borsh encoding of the unpacked instruction

vars == <<accounts, phase, call, prev, result, logs, cpi, created, initValue,
          incs, input, unpacked, packed>>

codecVars == <<input, unpacked, packed>>

----------------------------------------------------------------------------
(* Bounds of the model. *)

\* successful increments explored per account
MaxIncs == 2
\* account creations the payer's balance can fund
MaxCreates == 1
\* length of the short byte buffers given to the codec
MaxLen == 3

----------------------------------------------------------------------------
(* u64 values and their little-endian byte encoding. *)

\* n zero bytes: freshly allocated account data
Zeros(n) == [i \in 1..n |-> 0]

U64Zero == <<0, 0, 0, 0>>
U64One == <<1, 0, 0, 0>>
U64Max == <<65535, 65535, 65535, 65535>>

\* a slip: from_be_bytes, most significant byte first
u64_from_be_bytes(b) ==
    [i \in 1..4 |-> b[10 - 2 * i] + 256 * b[9 - 2 * i]]

\* u64::from_le_bytes: bytes 1,2 make the least significant limb
u64_from_le_bytes(b) ==
    [i \in 1..4 |-> b[2 * i - 1] + 256 * b[2 * i]]

\* a slip: to_be_bytes, most significant byte first
u64_to_be_bytes(v) ==
    [i \in 1..8 |-> IF i % 2 = 1 THEN v[4 - ((i - 1) \div 2)] \div 256
                                 ELSE v[4 - ((i - 1) \div 2)] % 256]

\* u64::to_le_bytes
u64_to_le_bytes(v) ==
    [i \in 1..8 |-> IF i % 2 = 1 THEN v[(i + 1) \div 2] % 256
                                 ELSE v[i \div 2] \div 256]

\* a slip: the carry out of a 16-bit limb is dropped
checked_add_no_carry(a, b) ==
    [some |-> TRUE,
     value |-> [i \in 1..4 |-> (a[i] + b[i]) % 65536]]

\* a slip: wrapping_add, 2^64 - 1 goes round to 0
wrapping_add(a, b) ==
    LET s1 == a[1] + b[1]
        s2 == a[2] + b[2] + (s1 \div 65536)
        s3 == a[3] + b[3] + (s2 \div 65536)
        s4 == a[4] + b[4] + (s3 \div 65536)
    IN  [some |-> TRUE,
         value |-> <<s1 % 65536, s2 % 65536, s3 % 65536, s4 % 65536>>]

\* u64::checked_add: None on overflow past 2^64 - 1
checked_add(a, b) ==
    LET s1 == a[1] + b[1]
        s2 == a[2] + b[2] + (s1 \div 65536)
        s3 == a[3] + b[3] + (s2 \div 65536)
        s4 == a[4] + b[4] + (s3 \div 65536)
    IN  IF s4 \div 65536 > 0
        THEN [some |-> FALSE, value |-> U64Zero]
        ELSE [some |-> TRUE,
              value |-> <<s1 % 65536, s2 % 65536, s3 % 65536, s4 % 65536>>]

----------------------------------------------------------------------------
(* The arithmetic the properties are stated in, written out from the       *)
(* definitions of the little-endian layout and of +1 rather than from the  *)
(* code.                                                                   *)

\* the 8-byte little-endian encoding of v: byte k holds (v div 256^k) mod 256
LE64(v) ==
    << v[1] % 256, v[1] \div 256, v[2] % 256, v[2] \div 256,
       v[3] % 256, v[3] \div 256, v[4] % 256, v[4] \div 256 >>

\* v + 1, for v < 2^64 - 1 (2^64 - 1 has no successor and is left as it is)
U64Succ(v) ==
    IF v = U64Max
    THEN U64Max
    ELSE LET i == CHOOSE j \in 1..4 :
                      v[j] # 65535 /\ \A k \in 1..(j - 1) : v[k] = 65535
         IN  [j \in 1..4 |->
                 IF j < i THEN 0 ELSE IF j = i THEN v[j] + 1 ELSE v[j]]

\* v + n, for v + n <= 2^64 - 1
RECURSIVE U64Plus(_, _)
U64Plus(v, n) == IF n = 0 THEN v ELSE U64Plus(U64Succ(v), n - 1)

----------------------------------------------------------------------------
(* The instruction codec. *)

InitializeCounter(initial_value) ==
    [variant |-> "InitializeCounter", initial_value |-> initial_value]
IncrementCounter ==
    [variant |-> "IncrementCounter", initial_value |-> U64Zero]

Ok(v) == [ok |-> TRUE, value |-> v, err |-> "None"]
Err(e) == [ok |-> FALSE, value |-> IncrementCounter, err |-> e]

Tail1(s) == SubSeq(s, 2, Len(s))

\* a slip: the increment arm insists on an empty payload
unpack_strict(bytes) ==
    IF bytes = <<>>
    THEN Err("InvalidInstructionData")
    ELSE LET variant == bytes[1]
             rest == Tail1(bytes)
         IN  CASE variant = 0 ->
                    IF Len(rest) = 8
                    THEN Ok(InitializeCounter(u64_from_le_bytes(rest)))
                    ELSE Err("InvalidInstructionData")
               [] variant = 1 ->
                    IF rest = <<>>
                    THEN Ok(IncrementCounter)
                    ELSE Err("InvalidInstructionData")
               [] OTHER -> Err("InvalidInstructionData")

\* a slip: the payload is not required to be exactly 8 bytes; a short one
\* is padded with zeros and a long one cut
unpack_lenient(bytes) ==
    IF bytes = <<>>
    THEN Err("InvalidInstructionData")
    ELSE LET variant == bytes[1]
             rest == Tail1(bytes)
         IN  CASE variant = 0 ->
                    Ok(InitializeCounter(
                        u64_from_le_bytes(SubSeq(rest \o Zeros(8), 1, 8))))
               [] variant = 1 -> Ok(IncrementCounter)
               [] OTHER -> Err("InvalidInstructionData")

\* CounterInstruction::unpack
unpack(bytes) ==
    IF bytes = <<>>
    THEN Err("InvalidInstructionData")
    ELSE LET variant == bytes[1]
             rest == Tail1(bytes)
         IN  CASE variant = 0 ->
                    IF Len(rest) = 8
                    THEN Ok(InitializeCounter(u64_from_le_bytes(rest)))
                    ELSE Err("InvalidInstructionData")
               [] variant = 1 -> Ok(IncrementCounter)
               [] OTHER -> Err("InvalidInstructionData")

\* a slip: the payload is written without the discriminant byte
pack_untagged(instruction) ==
    IF instruction.variant = "InitializeCounter"
    THEN u64_to_le_bytes(instruction.initial_value)
    ELSE <<>>

\* #[derive(BorshSerialize)] on CounterInstruction: the variant's index as one
\* byte, then its fields in order
pack(instruction) ==
    IF instruction.variant = "InitializeCounter"
    THEN <<0>> \o u64_to_le_bytes(instruction.initial_value)
    ELSE <<1>>

----------------------------------------------------------------------------
(* The counter record and its Borsh encoding. *)

\* a slip: deserialize instead of try_from_slice, bytes left over are accepted
try_from_slice_prefix(data) ==
    IF Len(data) < 8
    THEN Err("BorshIoError")
    ELSE Ok(u64_from_le_bytes(SubSeq(data, 1, 8)))

\* CounterAccount::try_from_slice: exactly 8 bytes, or an io::Error
try_from_slice(data) ==
    IF Len(data) < 8
    THEN Err("BorshIoError")
    ELSE IF Len(data) > 8
         THEN Err("BorshIoError")
         ELSE Ok(u64_from_le_bytes(data))

\* counter_data.serialize(&mut slice): write_all of the 8 bytes into the
\* front of the slice; a slice that is too short takes what fits and fails
serialize(count, slice) ==
    LET bytes == u64_to_le_bytes(count)
    IN  IF Len(slice) >= 8
        THEN [ok |-> TRUE, data |-> bytes \o SubSeq(slice, 9, Len(slice))]
        ELSE [ok |-> FALSE, data |-> SubSeq(bytes, 1, Len(slice))]

----------------------------------------------------------------------------
(* The ledger and the external collaborators. *)

ProgramId == "counter_program"
SystemProgramId == "system_program"
ForeignProgramId == "foreign_program"

Keys == {"counter", "stray", "payer", "system_program", "foreign"}

\* a slip: room is made for a tag byte in front of the count
account_space_tagged == 1 + 8

\* the size of a counter account's data
account_space == 8

\* an address no account has been created at
Vacant == [lamports |-> 0, owner |-> SystemProgramId, data |-> <<>>]

\* Rent::minimum_balance under the default rent parameters; Rent::get() itself
\* always succeeds inside the runtime
minimum_balance(data_len) == (128 + data_len) * 3480 * 2

\* the System Program's CreateAccount, reached through invoke: refused when
\* the new address is in use, when the funder cannot be debited, or when it
\* holds too little; otherwise the account is allocated zero-filled, assigned
\* and funded in one atomic step.  The handles are taken to carry the
\* signatures the request needs (the program never looks at is_signer).
create_account(accts, req) ==
    LET from == accts[req.from]
        to == accts[req.to]
    IN  IF to.lamports > 0 \/ to.data # <<>> \/ to.owner # SystemProgramId
        THEN [result |-> "AccountAlreadyInUse", accounts |-> accts]
        ELSE IF from.data # <<>> \/ from.owner # SystemProgramId
             THEN [result |-> "InvalidArgument", accounts |-> accts]
             ELSE IF from.lamports < req.lamports
                  THEN [result |-> "ResultWithNegativeLamports", accounts |-> accts]
                  ELSE [result |-> "Ok",
                        accounts |->
                            [accts EXCEPT
                                ![req.from].lamports = @ - req.lamports,
                                ![req.to] = [lamports |-> req.lamports,
                                             owner |-> req.owner,
                                             data |-> Zeros(req.space)]]]

----------------------------------------------------------------------------
(* The handlers.  Each returns the ledger it leaves, its result, the log    *)
(* lines it emitted and the create_account requests it issued.             *)

Outcome(accts, res, lines, reqs) ==
    [accounts |-> accts, result |-> res, logs |-> lines, cpi |-> reqs]

\* a slip: the result of invoke is dropped instead of propagated with `?`
process_initialize_counter_unchecked_invoke(accts, program_id, accs, initial_value) ==
    IF Len(accs) < 3
    THEN Outcome(accts, "NotEnoughAccountKeys", <<>>, <<>>)
    ELSE LET counter_account == accs[1]
             payer_account == accs[2]
             req == [from |-> payer_account, to |-> counter_account,
                     lamports |-> minimum_balance(account_space),
                     space |-> account_space, owner |-> program_id]
             invoked == create_account(accts, req)
             ser == serialize(initial_value,
                              invoked.accounts[counter_account].data)
             written == [invoked.accounts EXCEPT
                            ![counter_account].data = ser.data]
         IN  IF ~ser.ok
             THEN Outcome(written, "BorshIoError", <<>>, <<req>>)
             ELSE Outcome(written, "Ok",
                          <<[msg |-> "Counter initialized with value: ",
                             value |-> initial_value]>>,
                          <<req>>)

\* a slip: payer and counter change places in the create_account request
process_initialize_counter_swapped_keys(accts, program_id, accs, initial_value) ==
    IF Len(accs) < 3
    THEN Outcome(accts, "NotEnoughAccountKeys", <<>>, <<>>)
    ELSE LET counter_account == accs[1]
             payer_account == accs[2]
             req == [from |-> counter_account, to |-> payer_account,
                     lamports |-> minimum_balance(account_space),
                     space |-> account_space, owner |-> program_id]
             invoked == create_account(accts, req)
         IN  IF invoked.result # "Ok"
             THEN Outcome(invoked.accounts, invoked.result, <<>>, <<req>>)
             ELSE LET ser == serialize(initial_value,
                                       invoked.accounts[counter_account].data)
                      written == [invoked.accounts EXCEPT
                                     ![counter_account].data = ser.data]
                  IN  IF ~ser.ok
                      THEN Outcome(written, "BorshIoError", <<>>, <<req>>)
                      ELSE Outcome(written, "Ok",
                                   <<[msg |-> "Counter initialized with value: ",
                                      value |-> initial_value]>>,
                                   <<req>>)

\* a slip: the system program handle, which the handler only passes on, is
\* not fetched with next_account_info, so two handles are enough
process_initialize_counter_two_handles(accts, program_id, accs, initial_value) ==
    IF Len(accs) < 2
    THEN Outcome(accts, "NotEnoughAccountKeys", <<>>, <<>>)
    ELSE LET counter_account == accs[1]
             payer_account == accs[2]
             req == [from |-> payer_account, to |-> counter_account,
                     lamports |-> minimum_balance(account_space),
                     space |-> account_space, owner |-> program_id]
             invoked == create_account(accts, req)
         IN  IF invoked.result # "Ok"
             THEN Outcome(invoked.accounts, invoked.result, <<>>, <<req>>)
             ELSE LET ser == serialize(initial_value,
                                       invoked.accounts[counter_account].data)
                      written == [invoked.accounts EXCEPT
                                     ![counter_account].data = ser.data]
                  IN  IF ~ser.ok
                      THEN Outcome(written, "BorshIoError", <<>>, <<req>>)
                      ELSE Outcome(written, "Ok",
                                   <<[msg |-> "Counter initialized with value: ",
                                      value |-> initial_value]>>,
                                   <<req>>)

process_initialize_counter(accts, program_id, accs, initial_value) ==
    IF Len(accs) < 3
    THEN Outcome(accts, "NotEnoughAccountKeys", <<>>, <<>>)
    ELSE LET counter_account == accs[1]
             payer_account == accs[2]
             required_lamports == minimum_balance(account_space)
             req == [from |-> payer_account, to |-> counter_account,
                     lamports |-> required_lamports, space |-> account_space,
                     owner |-> program_id]
             invoked == create_account(accts, req)
         IN  IF invoked.result # "Ok"
             THEN Outcome(invoked.accounts, invoked.result, <<>>, <<req>>)
             ELSE LET ser == serialize(initial_value,
                                       invoked.accounts[counter_account].data)
                      written == [invoked.accounts EXCEPT
                                     ![counter_account].data = ser.data]
                  IN  IF ~ser.ok
                      THEN Outcome(written, "BorshIoError", <<>>, <<req>>)
                      ELSE Outcome(written, "Ok",
                                   <<[msg |-> "Counter initialized with value: ",
                                      value |-> initial_value]>>,
                                   <<req>>)

\* a slip: the ownership check is left out
process_increment_counter_any_owner(accts, program_id, accs) ==
    IF Len(accs) < 1
    THEN Outcome(accts, "NotEnoughAccountKeys", <<>>, <<>>)
    ELSE LET counter_account == accs[1]
             data == accts[counter_account].data
             counter_data == try_from_slice(data)
         IN  IF ~counter_data.ok
             THEN Outcome(accts, counter_data.err, <<>>, <<>>)
             ELSE LET sum == checked_add(counter_data.value, U64One)
                  IN  IF ~sum.some
                      THEN Outcome(accts, "InvalidAccountData", <<>>, <<>>)
                      ELSE Outcome([accts EXCEPT ![counter_account].data =
                                        serialize(sum.value, data).data],
                                   "Ok",
                                   <<[msg |-> "Counter incremented to: ",
                                      value |-> sum.value]>>,
                                   <<>>)

\* a slip: the sum is computed but the record read is what is written back
process_increment_counter_stale(accts, program_id, accs) ==
    IF Len(accs) < 1
    THEN Outcome(accts, "NotEnoughAccountKeys", <<>>, <<>>)
    ELSE LET counter_account == accs[1]
             data == accts[counter_account].data
         IN  IF accts[counter_account].owner # program_id
             THEN Outcome(accts, "IncorrectProgramId", <<>>, <<>>)
             ELSE LET counter_data == try_from_slice(data)
                  IN  IF ~counter_data.ok
                      THEN Outcome(accts, counter_data.err, <<>>, <<>>)
                      ELSE LET sum == checked_add(counter_data.value, U64One)
                           IN  IF ~sum.some
                               THEN Outcome(accts, "InvalidAccountData", <<>>, <<>>)
                               ELSE Outcome(
                                        [accts EXCEPT ![counter_account].data =
                                            serialize(counter_data.value, data).data],
                                        "Ok",
                                        <<[msg |-> "Counter incremented to: ",
                                           value |-> sum.value]>>,
                                        <<>>)

\* a slip: the sum is written back before the overflow is looked at
process_increment_counter_write_first(accts, program_id, accs) ==
    IF Len(accs) < 1
    THEN Outcome(accts, "NotEnoughAccountKeys", <<>>, <<>>)
    ELSE LET counter_account == accs[1]
             data == accts[counter_account].data
         IN  IF accts[counter_account].owner # program_id
             THEN Outcome(accts, "IncorrectProgramId", <<>>, <<>>)
             ELSE LET counter_data == try_from_slice(data)
                  IN  IF ~counter_data.ok
                      THEN Outcome(accts, counter_data.err, <<>>, <<>>)
                      ELSE LET sum == wrapping_add(counter_data.value, U64One)
                               written == [accts EXCEPT
                                   ![counter_account].data =
                                       serialize(sum.value, data).data]
                           IN  IF ~checked_add(counter_data.value, U64One).some
                               THEN Outcome(written, "InvalidAccountData",
                                            <<>>, <<>>)
                               ELSE Outcome(written, "Ok",
                                        <<[msg |-> "Counter incremented to: ",
                                           value |-> sum.value]>>,
                                        <<>>)

\* a slip: the record is read and incremented first, the owner checked last
process_increment_counter_owner_last(accts, program_id, accs) ==
    IF Len(accs) < 1
    THEN Outcome(accts, "NotEnoughAccountKeys", <<>>, <<>>)
    ELSE LET counter_account == accs[1]
             data == accts[counter_account].data
             counter_data == try_from_slice(data)
         IN  IF ~counter_data.ok
             THEN Outcome(accts, counter_data.err, <<>>, <<>>)
             ELSE LET sum == checked_add(counter_data.value, U64One)
                  IN  IF ~sum.some
                      THEN Outcome(accts, "InvalidAccountData", <<>>, <<>>)
                      ELSE IF accts[counter_account].owner # program_id
                           THEN Outcome(accts, "IncorrectProgramId", <<>>, <<>>)
                           ELSE Outcome(
                                    [accts EXCEPT ![counter_account].data =
                                        serialize(sum.value, data).data],
                                    "Ok",
                                    <<[msg |-> "Counter incremented to: ",
                                       value |-> sum.value]>>,
                                    <<>>)

\* a slip: the handler works on the last handle of the list, not the first
process_increment_counter_last_handle(accts, program_id, accs) ==
    IF Len(accs) < 1
    THEN Outcome(accts, "NotEnoughAccountKeys", <<>>, <<>>)
    ELSE LET counter_account == accs[Len(accs)]
             data == accts[counter_account].data
         IN  IF accts[counter_account].owner # program_id
             THEN Outcome(accts, "IncorrectProgramId", <<>>, <<>>)
             ELSE LET counter_data == try_from_slice(data)
                  IN  IF ~counter_data.ok
                      THEN Outcome(accts, counter_data.err, <<>>, <<>>)
                      ELSE LET sum == checked_add(counter_data.value, U64One)
                           IN  IF ~sum.some
                               THEN Outcome(accts, "InvalidAccountData", <<>>, <<>>)
                               ELSE Outcome(
                                        [accts EXCEPT ![counter_account].data =
                                            serialize(sum.value, data).data],
                                        "Ok",
                                        <<[msg |-> "Counter incremented to: ",
                                           value |-> sum.value]>>,
                                        <<>>)

process_increment_counter(accts, program_id, accs) ==
    IF Len(accs) < 1
    THEN Outcome(accts, "NotEnoughAccountKeys", <<>>, <<>>)
    ELSE LET counter_account == accs[1]
             data == accts[counter_account].data
         IN  IF accts[counter_account].owner # program_id
             THEN Outcome(accts, "IncorrectProgramId", <<>>, <<>>)
             ELSE LET counter_data == try_from_slice(data)
                  IN  IF ~counter_data.ok
                      THEN Outcome(accts, counter_data.err, <<>>, <<>>)
                      ELSE LET sum == checked_add(counter_data.value, U64One)
                           IN  IF ~sum.some
                               THEN Outcome(accts, "InvalidAccountData", <<>>, <<>>)
                               ELSE LET ser == serialize(sum.value, data)
                                        written == [accts EXCEPT
                                            ![counter_account].data = ser.data]
                                    IN  IF ~ser.ok
                                        THEN Outcome(written, "BorshIoError",
                                                     <<>>, <<>>)
                                        ELSE Outcome(written, "Ok",
                                            <<[msg |-> "Counter incremented to: ",
                                               value |-> sum.value]>>,
                                            <<>>)

\* a slip: a handler's failure is reported with a log line of its own
process_instruction_logs_failure(accts, program_id, accs, instruction_data) ==
    LET instruction == unpack(instruction_data)
        out == IF instruction.value.variant = "InitializeCounter"
               THEN process_initialize_counter(accts, program_id, accs,
                                               instruction.value.initial_value)
               ELSE process_increment_counter(accts, program_id, accs)
    IN  IF ~instruction.ok
        THEN Outcome(accts, instruction.err, <<>>, <<>>)
        ELSE IF out.result # "Ok"
             THEN [out EXCEPT !.logs =
                      <<[msg |-> "Instruction failed: ", value |-> U64Zero]>>]
             ELSE out

process_instruction(accts, program_id, accs, instruction_data) ==
    LET instruction == unpack(instruction_data)
    IN  IF ~instruction.ok
        THEN Outcome(accts, instruction.err, <<>>, <<>>)
        ELSE IF instruction.value.variant = "InitializeCounter"
             THEN process_initialize_counter(accts, program_id, accs,
                                             instruction.value.initial_value)
             ELSE process_increment_counter(accts, program_id, accs)

----------------------------------------------------------------------------
(* The inputs the model draws from. *)

\* 42 (the repository's test), 2^16 - 1 (a carry across two bytes),
\* 0x0102030405060708 (eight distinct bytes), 2^64 - 2 and 2^64 - 1
TestValues ==
    { <<42, 0, 0, 0>>,
      <<65535, 0, 0, 0>>,
      <<1800, 1286, 772, 258>>,
      <<65534, 65535, 65535, 65535>>,
      U64Max }

\* instruction buffers a caller may submit
InstructionData ==
    { <<0>> \o LE64(v) : v \in TestValues }
        \cup { <<1>>, <<1, 7, 7>>, <<1>> \o LE64(U64Max),
               <<>>, <<2>>, <<0>> \o Zeros(7) }

\* account lists a caller may submit: up to three handles
AccountLists ==
    { <<>> }
        \cup { <<a>> : a \in Keys }
        \cup { <<a, b>> : a \in Keys, b \in {"payer", "foreign", "stray"} }
        \cup { <<a, b, "system_program">> :
                   a \in Keys, b \in {"payer", "foreign", "stray"} }

\* data lengths of accounts some other caller allocated to this program
StrayLens == {0, 7, 9, account_space}

\* what a foreign program keeps in its account
ForeignData ==
    { LE64(<<42, 0, 0, 0>>), LE64(U64Max), Zeros(7) }

NoCall == [accounts |-> <<>>, instruction_data |-> <<>>]
NoUnpacked == Err("None")

----------------------------------------------------------------------------
(* The ledger machine: a caller submits an invocation, the program         *)
(* processes it to completion, the host retires it.                        *)

CodecIdle ==
    /\ input = <<>>
    /\ unpacked = NoUnpacked
    /\ packed = <<>>

Init ==
    /\ \E stray \in {Vacant} \cup
                    { [lamports |-> minimum_balance(n), owner |-> ProgramId,
                       data |-> Zeros(n)] : n \in StrayLens },
          fdata \in ForeignData :
          accounts =
              [k \in Keys |->
                  CASE k = "counter" -> Vacant
                    [] k = "stray" -> stray
                    [] k = "payer" ->
                        [lamports |-> MaxCreates * minimum_balance(account_space),
                         owner |-> SystemProgramId, data |-> <<>>]
                    [] k = "system_program" ->
                        [lamports |-> 1, owner |-> "native_loader", data |-> <<>>]
                    [] k = "foreign" ->
                        [lamports |-> minimum_balance(Len(fdata)),
                         owner |-> ForeignProgramId, data |-> fdata]]
    /\ phase = "idle"
    /\ call = NoCall
    /\ prev = accounts
    /\ result = "None"
    /\ logs = <<>>
    /\ cpi = <<>>
    /\ created = {}
    /\ initValue = [k \in Keys |-> U64Zero]
    /\ incs = [k \in Keys |-> 0]
    /\ CodecIdle

\* a caller hands the host an instruction buffer and an account list
Submit(accs, instruction_data) ==
    /\ phase = "idle"
    /\ (unpack(instruction_data).ok
            /\ unpack(instruction_data).value.variant = "IncrementCounter"
            /\ accs # <<>>)
        => incs[accs[1]] < MaxIncs
    /\ phase' = "pending"
    /\ call' = [accounts |-> accs, instruction_data |-> instruction_data]
    /\ prev' = accounts
    /\ UNCHANGED <<accounts, result, logs, cpi, created, initValue, incs>>
    /\ UNCHANGED codecVars

\* the host runs process_instruction on the invocation in flight
Run(out) ==
    /\ accounts' = out.accounts
    /\ result' = out.result
    /\ logs' = out.logs
    /\ cpi' = out.cpi
    /\ phase' = "done"
    /\ unpacked' = unpack(call.instruction_data)
    /\ UNCHANGED <<call, prev, input, packed>>

\* process_instruction, unpack fails
ProcessInvalidInstruction ==
    /\ phase = "pending"
    /\ ~unpack(call.instruction_data).ok
    /\ Run(process_instruction(accounts, ProgramId, call.accounts,
                               call.instruction_data))
    /\ UNCHANGED <<created, initValue, incs>>

\* process_instruction, routed to process_initialize_counter
ProcessInitializeCounter ==
    /\ phase = "pending"
    /\ unpack(call.instruction_data).ok
    /\ unpack(call.instruction_data).value.variant = "InitializeCounter"
    /\ LET out == process_instruction(accounts, ProgramId, call.accounts,
                                      call.instruction_data)
           initial_value == unpack(call.instruction_data).value.initial_value
       IN  /\ Run(out)
           /\ IF out.result = "Ok"
              THEN /\ created' = created \cup {call.accounts[1]}
                   /\ initValue' = [initValue EXCEPT
                                       ![call.accounts[1]] = initial_value]
              ELSE UNCHANGED <<created, initValue>>
           /\ UNCHANGED incs

\* process_instruction, routed to process_increment_counter
ProcessIncrementCounter ==
    /\ phase = "pending"
    /\ unpack(call.instruction_data).ok
    /\ unpack(call.instruction_data).value.variant = "IncrementCounter"
    /\ LET out == process_instruction(accounts, ProgramId, call.accounts,
                                      call.instruction_data)
       IN  /\ Run(out)
           /\ IF out.result = "Ok"
              THEN incs' = [incs EXCEPT ![call.accounts[1]] = @ + 1]
              ELSE UNCHANGED incs
           /\ UNCHANGED <<created, initValue>>

\* the host retires the finished invocation
Retire ==
    /\ phase = "done"
    /\ phase' = "idle"
    /\ call' = NoCall
    /\ prev' = accounts
    /\ result' = "None"
    /\ logs' = <<>>
    /\ cpi' = <<>>
    /\ unpacked' = NoUnpacked
    /\ UNCHANGED <<accounts, created, initValue, incs, input, packed>>

SubmitAny ==
    \E accs \in AccountLists, instruction_data \in InstructionData :
        Submit(accs, instruction_data)

Next ==
    \/ SubmitAny
    \/ ProcessInvalidInstruction
    \/ ProcessInitializeCounter
    \/ ProcessIncrementCounter
    \/ Retire

Spec == Init /\ [][Next]_vars

----------------------------------------------------------------------------
(* The codec machine: a caller's buffer is unpacked, and the instruction   *)
(* that comes out is encoded again.                                        *)

CodecBytes == {0, 1, 2, 255}

RECURSIVE SeqsUpTo(_, _)
SeqsUpTo(S, n) ==
    IF n = 0
    THEN { <<>> }
    ELSE LET shorter == SeqsUpTo(S, n - 1)
         IN  shorter \cup { Append(s, x) : s \in shorter, x \in S }

\* payloads of 8 bytes, of 7 (one short) and of 9 (one over)
Payloads ==
    { LE64(v) : v \in TestValues }
        \cup { SubSeq(LE64(v), 1, 7) : v \in TestValues }
        \cup { Append(LE64(v), b) : v \in TestValues, b \in {0, 1} }

CodecInputs ==
    SeqsUpTo(CodecBytes, MaxLen)
        \cup { <<tag>> \o p : tag \in {0, 1, 2}, p \in Payloads }

InitCodec ==
    /\ input \in CodecInputs
    /\ unpacked = NoUnpacked
    /\ packed = <<>>
    /\ accounts = [k \in Keys |-> Vacant]
    /\ phase = "codec"
    /\ call = NoCall
    /\ prev = accounts
    /\ result = "None"
    /\ logs = <<>>
    /\ cpi = <<>>
    /\ created = {}
    /\ initValue = [k \in Keys |-> U64Zero]
    /\ incs = [k \in Keys |-> 0]

\* CounterInstruction::unpack(input)
Unpack ==
    /\ phase = "codec"
    /\ unpacked' = unpack(input)
    /\ phase' = "unpacked"
    /\ UNCHANGED <<input, packed>>
    /\ UNCHANGED <<accounts, call, prev, result, logs, cpi, created, initValue, incs>>

\* the caller-side encoding of the instruction unpack produced
Pack ==
    /\ phase = "unpacked"
    /\ unpacked.ok
    /\ packed' = pack(unpacked.value)
    /\ phase' = "packed"
    /\ UNCHANGED <<input, unpacked>>
    /\ UNCHANGED <<accounts, call, prev, result, logs, cpi, created, initValue, incs>>

NextCodec ==
    \/ Unpack
    \/ Pack

SpecCodec == InitCodec /\ [][NextCodec]_vars

----------------------------------------------------------------------------
(* Properties of the ledger machine.  They are read in the state an        *)
(* invocation leaves (phase = "done"), where prev is the ledger it started *)
(* from.                                                                   *)

\* the invocation in flight carries discriminant 1
IncrementCall ==
    /\ call.instruction_data # <<>>
    /\ call.instruction_data[1] = 1

\* the invocation in flight is [0] ++ le64(v)
InitializeCall(v) == call.instruction_data = <<0>> \o LE64(v)

\* the address of the first handle of the invocation in flight
Target == call.accounts[1]

\* values a counter can hold within the bounds
CounterValues ==
    { U64Plus(v, n) : v \in TestValues \cup {U64Zero}, n \in 0..(MaxIncs + 1) }
        \ { U64Max }

\* C1: an increment on a program-owned account whose buffer is le64(v),
\* v < 2^64 - 1, succeeds and leaves the buffer holding le64(v + 1).
C1_IncrementAddsOne ==
    \A v \in CounterValues :
        ( /\ phase = "done"
          /\ IncrementCall
          /\ call.accounts # <<>>
          /\ prev[Target].owner = ProgramId
          /\ prev[Target].data = LE64(v) )
        => /\ result = "Ok"
           /\ accounts[Target].data = LE64(U64Succ(v))

C1_Witness ==
    /\ phase = "done"
    /\ IncrementCall
    /\ call.accounts # <<>>
    /\ prev[Target].owner = ProgramId
    /\ prev[Target].data = LE64(<<65535, 0, 0, 0>>)
    /\ accounts[Target].data = LE64(<<0, 1, 0, 0>>)

\* C2: an increment on a program-owned account holding 2^64 - 1 fails with
\* the overflow error (the code's InvalidAccountData) and the buffer still
\* holds 2^64 - 1: the count does not wrap to 0.
C2_OverflowRejected ==
    ( /\ phase = "done"
      /\ IncrementCall
      /\ call.accounts # <<>>
      /\ prev[Target].owner = ProgramId
      /\ prev[Target].data = LE64(U64Max) )
    => /\ result = "InvalidAccountData"
       /\ accounts[Target].data = LE64(U64Max)

C2_Witness ==
    /\ phase = "done"
    /\ IncrementCall
    /\ call.accounts # <<>>
    /\ prev[Target].owner = ProgramId
    /\ prev[Target].data = LE64(U64Max)
    /\ result = "InvalidAccountData"

\* C3: an increment on an account whose owner is not the program fails with
\* the incorrect-owner error (the code's IncorrectProgramId) and leaves its
\* data as it was; no increment changes the data of any account a foreign
\* identity owns.
C3_ForeignOwnerRejected ==
    ( /\ phase = "done"
      /\ IncrementCall
      /\ call.accounts # <<>> )
    => /\ prev[Target].owner # ProgramId
            => /\ result = "IncorrectProgramId"
               /\ accounts[Target].data = prev[Target].data
       /\ \A k \in Keys :
            prev[k].owner # ProgramId => accounts[k].data = prev[k].data

C3_Witness ==
    /\ phase = "done"
    /\ IncrementCall
    /\ call.accounts # <<>>
    /\ Target = "foreign"
    /\ prev["foreign"].owner = ForeignProgramId
    /\ prev["foreign"].data = LE64(<<42, 0, 0, 0>>)
    /\ result = "IncorrectProgramId"

\* C4: a successful initialize with initial_value = v on an account that did
\* not exist leaves that account's buffer equal to le64(v).
C4_InitializeStoresValue ==
    \A v \in TestValues :
        ( /\ phase = "done"
          /\ InitializeCall(v)
          /\ result = "Ok" )
        => /\ prev[Target] = Vacant
           /\ accounts[Target].data = LE64(v)

C4_Witness ==
    /\ phase = "done"
    /\ InitializeCall(<<1800, 1286, 772, 258>>)
    /\ result = "Ok"
    /\ prev[Target] = Vacant
    /\ accounts[Target].data = <<8, 7, 6, 5, 4, 3, 2, 1>>

C6_ExistingAccountNotOverwritten ==
    \A v \in TestValues :
        ( /\ phase = "done"
          /\ InitializeCall(v)
          /\ Len(call.accounts) = 3
          /\ prev[Target].data # <<>> )
        => /\ result = "AccountAlreadyInUse"
           /\ accounts[Target] = prev[Target]

C6_Witness ==
    /\ phase = "done"
    /\ InitializeCall(U64Max)
    /\ call.accounts = <<"counter", "payer", "system_program">>
    /\ "counter" \in created
    /\ prev["counter"].data = LE64(<<42, 0, 0, 0>>)
    /\ result = "AccountAlreadyInUse"
    /\ accounts["counter"].data = LE64(<<42, 0, 0, 0>>)

\* C8: a buffer whose first byte is 1 decodes to IncrementCounter whatever
\* follows that byte, and the invocation does exactly what it does for the
\* one-byte buffer [1].
C8_TrailingBytesIgnored ==
    ( /\ phase = "done"
      /\ IncrementCall )
    => /\ unpacked.ok
       /\ unpacked.value = [variant |-> "IncrementCounter",
                            initial_value |-> U64Zero]
       /\ LET plain == process_instruction(prev, ProgramId, call.accounts, <<1>>)
          IN  /\ accounts = plain.accounts
              /\ result = plain.result
              /\ logs = plain.logs
              /\ cpi = plain.cpi

C8_Witness ==
    /\ phase = "done"
    /\ call.instruction_data = <<1>> \o LE64(U64Max)
    /\ unpacked.ok
    /\ unpacked.value.variant = "IncrementCounter"
    /\ result = "Ok"
    /\ prev[Target].data = LE64(<<42, 0, 0, 0>>)
    /\ accounts[Target].data = LE64(<<43, 0, 0, 0>>)

----------------------------------------------------------------------------
(* Properties of the codec machine. *)

\* the three ways a buffer can fail to decode
FailureCase(bytes) ==
    IF bytes = <<>>
    THEN "Empty"
    ELSE IF bytes[1] = 0
         THEN IF Len(bytes) # 9 THEN "MalformedPayload" ELSE "None"
         ELSE IF bytes[1] = 1 THEN "None" ELSE "UnknownVariant"

\* C7: the 9-byte buffer [0] ++ le64(v) decodes to InitializeCounter{v}.
C7_DecodeInitialize ==
    \A v \in TestValues :
        (phase # "codec" /\ input = <<0>> \o LE64(v))
        => /\ unpacked.ok
           /\ unpacked.value = [variant |-> "InitializeCounter",
                                initial_value |-> v]

C7_Witness ==
    /\ phase = "unpacked"
    /\ input = <<0, 8, 7, 6, 5, 4, 3, 2, 1>>
    /\ unpacked.ok
    /\ unpacked.value.variant = "InitializeCounter"
    /\ unpacked.value.initial_value = <<1800, 1286, 772, 258>>

\* C9 as stated: the reason a decode failure carries tells the three cases
\* apart, so two buffers that fail for different reasons fail with
\* different errors.
C9_ReasonsDistinguishCases ==
    (phase = "unpacked" /\ ~unpacked.ok)
    => \A other \in CodecInputs :
          (~unpack(other).ok /\ FailureCase(other) # FailureCase(input))
          => unpack(other).err # unpacked.err

\* C9 as amended: the empty buffer, a buffer [0] ++ payload whose payload is
\* not exactly 8 bytes, and a buffer whose first byte is neither 0 nor 1 all
\* fail to decode, each with the one error InvalidInstructionData; every
\* other buffer decodes.
C9_DecodeFailures ==
    phase # "codec"
    => IF FailureCase(input) # "None"
       THEN ~unpacked.ok /\ unpacked.err = "InvalidInstructionData"
       ELSE unpacked.ok

C9_Witness ==
    /\ phase = "unpacked"
    /\ input = <<0>> \o LE64(U64Max) \o <<1>>
    /\ ~unpacked.ok
    /\ unpacked.err = "InvalidInstructionData"

\* C10: for a valid buffer x = [0] ++ le64(v), encoding the instruction x
\* decodes to gives x back.
C10_RoundTrip ==
    (phase = "packed" /\ Len(input) = 9 /\ input[1] = 0)
    => packed = input

C10_Witness ==
    /\ phase = "packed"
    /\ input = <<0, 8, 7, 6, 5, 4, 3, 2, 1>>
    /\ packed = <<0, 8, 7, 6, 5, 4, 3, 2, 1>>

----------------------------------------------------------------------------
(* Further properties of the ledger machine. *)

\* C11: the data of an account that exists changes only in an invocation
\* that is a successful increment on that account, and then from le64(v) to
\* le64(v + 1); nothing lowers it, resets it or writes another value.
C11_CountChangesOnlyByIncrement ==
    /\ phase \in {"idle", "pending"} => accounts = prev
    /\ phase = "done" =>
         \A k \in Keys :
            (prev[k].data # <<>> /\ accounts[k].data # prev[k].data)
            => /\ IncrementCall
               /\ call.accounts # <<>>
               /\ k = Target
               /\ result = "Ok"
               /\ \E v \in CounterValues :
                     /\ prev[k].data = LE64(v)
                     /\ accounts[k].data = LE64(U64Succ(v))

C11_Witness ==
    /\ phase = "done"
    /\ IncrementCall
    /\ call.accounts # <<>>
    /\ Target = "counter"
    /\ "counter" \in created
    /\ prev["counter"].data = LE64(<<65534, 65535, 65535, 65535>>)
    /\ accounts["counter"].data = LE64(U64Max)
    /\ result = "Ok"

\* C12: an invocation that returns an error leaves every account's data as
\* it was before the call, whichever error it is.
C12_FailureWritesNothing ==
    (phase = "done" /\ result # "Ok")
    => \A k \in Keys : accounts[k].data = prev[k].data

C12_Witness ==
    /\ phase = "done"
    /\ InitializeCall(<<42, 0, 0, 0>>)
    /\ call.accounts = <<"stray", "payer", "system_program">>
    /\ prev["stray"] = Vacant
    /\ result = "ResultWithNegativeLamports"
    /\ accounts = prev

\* C13: an increment on a program-owned account whose buffer is not exactly
\* 8 bytes long (empty, shorter or longer) fails with the malformed-data
\* error (the code's BorshIoError) and leaves the buffer as it was.
C13_MalformedDataRejected ==
    ( /\ phase = "done"
      /\ IncrementCall
      /\ call.accounts # <<>>
      /\ prev[Target].owner = ProgramId
      /\ Len(prev[Target].data) # 8 )
    => /\ result = "BorshIoError"
       /\ accounts[Target].data = prev[Target].data

C13_Witness ==
    /\ phase = "done"
    /\ IncrementCall
    /\ call.accounts # <<>>
    /\ Target = "stray"
    /\ prev["stray"].owner = ProgramId
    /\ prev["stray"].data = Zeros(9)
    /\ result = "BorshIoError"
    /\ accounts["stray"].data = Zeros(9)

\* C14: an initialize given its three handles issues exactly one
\* create_account request: funder the payer handle, new address the counter
\* handle, 8 bytes, minimum_balance(8) lamports, owner the program; the
\* counter's data is written only when that request succeeded.
C14_OneCreateAccountRequest ==
    \A v \in TestValues :
        ( /\ phase = "done"
          /\ InitializeCall(v)
          /\ Len(call.accounts) >= 3 )
        => /\ cpi = << [from |-> call.accounts[2],
                        to |-> call.accounts[1],
                        lamports |-> minimum_balance(8),
                        space |-> 8,
                        owner |-> ProgramId] >>
           /\ accounts[Target].data # prev[Target].data
                => /\ create_account(prev, cpi[1]).result = "Ok"
                   /\ accounts[Target].owner = ProgramId
                   /\ Len(accounts[Target].data) = 8

C14_Witness ==
    /\ phase = "done"
    /\ InitializeCall(<<65535, 0, 0, 0>>)
    /\ call.accounts = <<"counter", "payer", "system_program">>
    /\ Len(cpi) = 1
    /\ cpi[1].from = "payer"
    /\ cpi[1].to = "counter"
    /\ cpi[1].lamports = 946560
    /\ result = "Ok"
    /\ prev["payer"].lamports - accounts["payer"].lamports = 946560

\* C15: an invocation emits a log line exactly when it returns success, and
\* then exactly one: with the initial value after an initialize, with the
\* count now stored after an increment.
C15_LogsOnlyOnSuccess ==
    /\ phase # "done" => logs = <<>>
    /\ phase = "done" =>
         IF result = "Ok"
         THEN /\ Len(logs) = 1
              /\ IncrementCall =>
                    /\ logs[1].msg = "Counter incremented to: "
                    /\ LE64(logs[1].value) = accounts[Target].data
              /\ \A v \in TestValues :
                    InitializeCall(v) =>
                        /\ logs[1].msg = "Counter initialized with value: "
                        /\ logs[1].value = v
         ELSE logs = <<>>

C15_Witness ==
    /\ phase = "done"
    /\ IncrementCall
    /\ result = "Ok"
    /\ Len(logs) = 1
    /\ logs[1].value = <<0, 1, 0, 0>>
    /\ accounts[Target].data = <<0, 0, 1, 0, 0, 0, 0, 0>>

\* C16: every account this program's initialize created holds exactly 8
\* bytes, the little-endian encoding of its count and nothing else, and no
\* invocation changes the length of an existing account's buffer.
C16_EightByteLayout ==
    /\ \A k \in created :
          /\ Len(accounts[k].data) = 8
          /\ accounts[k].data = LE64(U64Plus(initValue[k], incs[k]))
          /\ accounts[k].owner = ProgramId
    /\ phase = "done" =>
          \A k \in Keys :
             prev[k].data # <<>> => Len(accounts[k].data) = Len(prev[k].data)

C16_Witness ==
    /\ phase = "done"
    /\ "counter" \in created
    /\ initValue["counter"] = <<65535, 0, 0, 0>>
    /\ incs["counter"] = 2
    /\ accounts["counter"].data = <<1, 0, 1, 0, 0, 0, 0, 0>>

\* C17: in an increment the owner is checked before the data is read: an
\* account the program does not own fails with the incorrect-owner error
\* also when its buffer is malformed or holds 2^64 - 1, and the
\* malformed-data and overflow errors come back only for accounts the
\* program owns.
C17_OwnerCheckedFirst ==
    ( /\ phase = "done"
      /\ IncrementCall
      /\ call.accounts # <<>> )
    => /\ ( /\ prev[Target].owner # ProgramId
            /\ \/ Len(prev[Target].data) # 8
               \/ prev[Target].data = LE64(U64Max) )
          => result = "IncorrectProgramId"
       /\ result \in {"BorshIoError", "InvalidAccountData"}
          => prev[Target].owner = ProgramId

C17_Witness ==
    /\ phase = "done"
    /\ IncrementCall
    /\ call.accounts # <<>>
    /\ Target = "foreign"
    /\ prev["foreign"].owner = ForeignProgramId
    /\ prev["foreign"].data = Zeros(7)
    /\ result = "IncorrectProgramId"

\* C18: an increment given no handle, and an initialize given fewer than
\* three, return an error (NotEnoughAccountKeys) having issued no
\* create_account request, written no account and emitted no log line.
C18_TooFewHandles ==
    ( /\ phase = "done"
      /\ \/ IncrementCall /\ call.accounts = <<>>
         \/ /\ \E v \in TestValues : InitializeCall(v)
            /\ Len(call.accounts) < 3 )
    => /\ result = "NotEnoughAccountKeys"
       /\ cpi = <<>>
       /\ accounts = prev
       /\ logs = <<>>

C18_Witness ==
    /\ phase = "done"
    /\ InitializeCall(<<42, 0, 0, 0>>)
    /\ call.accounts = <<"counter", "payer">>
    /\ prev["counter"] = Vacant
    /\ result = "NotEnoughAccountKeys"
    /\ cpi = <<>>
    /\ accounts["counter"] = Vacant

\* C19: a successful increment changes the data of the account its first
\* handle names and nothing else: not that account's owner or balance, not
\* any other account (a further handle of the list, another counter of the
\* program), and it issues no create_account request.
C19_IncrementFrame ==
    ( /\ phase = "done"
      /\ IncrementCall
      /\ result = "Ok" )
    => /\ accounts = [prev EXCEPT ![Target].data = accounts[Target].data]
       /\ accounts[Target].data # prev[Target].data
       /\ cpi = <<>>

C19_Witness ==
    /\ phase = "done"
    /\ IncrementCall
    /\ result = "Ok"
    /\ call.accounts = <<"counter", "stray">>
    /\ prev["stray"].owner = ProgramId
    /\ prev["stray"].data = Zeros(8)
    /\ accounts["stray"] = prev["stray"]
    /\ accounts["counter"].data # prev["counter"].data
    /\ accounts["counter"].owner = prev["counter"].owner
    /\ accounts["counter"].lamports = prev["counter"].lamports

====
